---- MODULE Spec2Model ----
(***************************************************************************)
(* Model of crowdin/parse_xliff.py: extraction of one XLIFF document       *)
(* (parse_xliff_file), aggregation over the configured locales             *)
(* (parse_all_xliff_files) and the command-line run (main).                *)
(*                                                                         *)
(* Optional values (Python None) are sequences of length 0 or 1:           *)
(* <<>> is None, <<x>> is the value x.  An XML text node is an optional    *)
(* string: <<>> is "element absent", <<"">> is "element present, text      *)
(* empty", <<"T">> is "element present, text T".                           *)
(***************************************************************************)
EXTENDS Integers, Sequences, FiniteSets, TLC

\* ------------------------------------------------------------------ bounds
MaxUnits == 2
MaxGroups == 1
MaxTargets == 2

\* ------------------------------------------------------- python primitives
None == <<>>

Some(x) == <<x>>

\* Python truthiness of an optional string: None and '' are falsy.
Truthy(o) == o # None /\ o[1] # ""

\* a or b
PyOr(a, b) == IF Truthy(a) THEN a ELSE b

EmptyMap == [x \in {} |-> x]

\* m[k] = v
Put(m, k, v) == [x \in (DOMAIN m) \cup {k} |-> IF x = k THEN v ELSE m[x]]

\* ------------------------------------------------ plural-form marker text
\* str.lower() on the characters the model uses
LowerChar(c) == CASE c = "O" -> "o" [] c = "F" -> "f" [] c = "P" -> "p" [] OTHER -> c

Lower(s) == [i \in 1..Len(s) |-> LowerChar(s[i])]

IsSpace(c) == c = " "

RECURSIVE LStrip(_)
LStrip(s) == IF s # <<>> /\ IsSpace(Head(s)) THEN LStrip(Tail(s)) ELSE s

RECURSIVE RStrip(_)
RStrip(s) == IF s # <<>> /\ IsSpace(s[Len(s)]) THEN RStrip(SubSeq(s, 1, Len(s) - 1)) ELSE s

\* str.strip()
Strip(s) == RStrip(LStrip(s))

\* text.split(':')[-1]: what follows the last ':' (the whole text without one)
LastSegment(s) ==
    LET cut == {i \in 1..Len(s) : s[i] = ":"}
    IN  IF cut = {} THEN s
        ELSE SubSeq(s, (CHOOSE i \in cut : \A j \in cut : j <= i) + 1, Len(s))

\* plural_form_elem.text.split(':')[-1].strip().lower()
FormOf(text) == Lower(Strip(LastSegment(text)))

\* ------------------------------------------------------------ key of a unit
\* trans_unit.get('resname') or trans_unit.get('id')
ResolveKey(u) == PyOr(u.resname, u.id)

\* ------------------------------------------------------ text-selection code
\* Plural path: the if/elif of one member that carries a plural-form marker.
\* has: a form is stored; text: the stored text; fallback: the source was used;
\* warns: a warning is printed.
PluralChoice(target, source, warn_on_missing_target) ==
    IF target # None /\ target[1] # ""
    THEN [has |-> TRUE, text |-> target[1], fallback |-> FALSE, warns |-> FALSE]
    ELSE IF source # None /\ source[1] # ""
    THEN [has |-> TRUE, text |-> source[1], fallback |-> TRUE, warns |-> warn_on_missing_target]
    ELSE [has |-> FALSE, text |-> "", fallback |-> FALSE, warns |-> FALSE]

\* (variant: the singular fallback prints nothing)
SingularChoiceSilent(target, source, warn_on_missing_target) ==
    IF target # None /\ target[1] # ""
    THEN [has |-> TRUE, text |-> target[1], fallback |-> FALSE, warns |-> FALSE]
    ELSE IF source # None /\ source[1] # ""
    THEN [has |-> TRUE, text |-> source[1], fallback |-> TRUE, warns |-> FALSE]
    ELSE [has |-> FALSE, text |-> "", fallback |-> FALSE, warns |-> FALSE]

\* (variant: the singular path tests only that <target> exists)
SingularChoiceNotNone(target, source, warn_on_missing_target) ==
    IF target # None
    THEN [has |-> TRUE, text |-> target[1], fallback |-> FALSE, warns |-> FALSE]
    ELSE IF source # None /\ source[1] # ""
    THEN [has |-> TRUE, text |-> source[1], fallback |-> TRUE, warns |-> warn_on_missing_target]
    ELSE [has |-> FALSE, text |-> "", fallback |-> FALSE, warns |-> FALSE]

\* Singular path: the if/elif of one standalone unit.
SingularChoice(target, source, warn_on_missing_target) ==
    IF target # None /\ target[1] # ""
    THEN [has |-> TRUE, text |-> target[1], fallback |-> FALSE, warns |-> FALSE]
    ELSE IF source # None /\ source[1] # ""
    THEN [has |-> TRUE, text |-> source[1], fallback |-> TRUE, warns |-> warn_on_missing_target]
    ELSE [has |-> FALSE, text |-> "", fallback |-> FALSE, warns |-> FALSE]

\* the two print() calls that report a fallback
PluralWarning(form, resname, target_language) ==
    [kind |-> "warning", key |-> resname, form |-> Some(form), lang |-> target_language]

SingularWarning(resname, target_language) ==
    [kind |-> "warning", key |-> Some(resname), form |-> None, lang |-> target_language]

\* -------------------------------------------------------------- documents
\* A trans-unit: its resname and id attributes, its <target> and <source>
\* text, its plural-form marker, and grp: 0 for a unit outside every
\* x-gettext-plurals group, g for a direct child of the g-th such group.
Unit(resname, id, target, source, marker, grp) ==
    [resname |-> resname, id |-> id, target |-> target, source |-> source,
     marker |-> marker, grp |-> grp]

\* marker.group: a <context-group> child exists; marker.form: it holds a
\* context of type x-plural-form; marker.text: that context's text.
NoCtx == [group |-> FALSE, form |-> FALSE, text |-> None]

CtxNoForm == [group |-> TRUE, form |-> FALSE, text |-> None]

FormNoText == [group |-> TRUE, form |-> TRUE, text |-> None]

FormText(t) == [group |-> TRUE, form |-> TRUE, text |-> Some(t)]

MarkOne == FormText(<<"P", ":", " ", "O", " ">>)

MarkOneToo == FormText(<<"o">>)

MarkFew == FormText(<<"F">>)

\* (resname, id) pairs; they resolve to None, '', 'a', 'b'
KeyNone == <<None, None>>

KeyEmpty == <<None, Some("")>>

KeyA == <<Some("a"), Some("b")>>

KeyB == <<Some(""), Some("b")>>

KeyAttrs == {KeyNone, KeyEmpty, KeyA, KeyB}

\* (target, source) pairs: translated, fallback, nothing
TextTarget == <<Some("T"), Some("S")>>

TextFallback == <<Some(""), Some("S")>>

TextNothing == <<None, Some("")>>

TextPairs == {TextTarget, TextFallback, TextNothing}

MkUnit(k, x, marker, grp) == Unit(k[1], k[2], x[1], x[2], marker, grp)

StandaloneUnits ==
    {MkUnit(k, TextTarget, NoCtx, 0) : k \in KeyAttrs}
    \cup {MkUnit(k, TextFallback, NoCtx, 0) : k \in {KeyNone, KeyEmpty, KeyA}}
    \cup {MkUnit(KeyA, TextNothing, NoCtx, 0)}

MemberUnits(g) ==
    {MkUnit(KeyA, x, m, g) : x \in TextPairs, m \in {MarkOne, NoCtx}}
    \cup {MkUnit(KeyB, TextFallback, MarkFew, g), MkUnit(KeyNone, TextFallback, MarkOneToo, g),
          MkUnit(KeyEmpty, TextTarget, MarkOneToo, g), MkUnit(KeyA, TextTarget, CtxNoForm, g),
          MkUnit(KeyA, TextTarget, FormNoText, g)}

TaggedUnits == StandaloneUnits \cup UNION {MemberUnits(g) : g \in 1..MaxGroups}

\* wellformed: ET.parse succeeds; file_elem: the root has a <file> child;
\* target_language: that element's target-language attribute.
Doc(wellformed, file_elem, target_language, units) ==
    [wellformed |-> wellformed, file_elem |-> file_elem,
     target_language |-> target_language, units |-> units]

GoodDoc(units) == Doc(TRUE, TRUE, Some("fr"), units)

DocMalformed == Doc(FALSE, FALSE, None, <<>>)

DocNoFile == Doc(TRUE, FALSE, None, <<>>)

DocNoLang == Doc(TRUE, TRUE, None, <<>>)

UnitSeqs == UNION {[1..n -> TaggedUnits] : n \in 0..MaxUnits}

ParseDocs == {DocMalformed, DocNoFile, DocNoLang} \cup {GoodDoc(us) : us \in UnitSeqs}

\* group.findall('ns:trans-unit'): the direct children of group g, in order
Members(d, g) == SelectSeq(d.units, LAMBDA u : u.grp = g)

\* root.findall('.//ns:group[@restype="x-gettext-plurals"]')
NumGroups(d) ==
    LET gs == {d.units[i].grp : i \in 1..Len(d.units)} \cup {0}
    IN  CHOOSE g \in gs : \A h \in gs : h <= g

\* root.findall('.//ns:trans-unit'): every unit, group members included
AllUnits(d) == d.units

\* ------------------------------------------- the steps of parse_xliff_file
\* The locals of parse_xliff_file: resname, plural_forms, translations, what
\* was printed (out) and the exception that left the function (exc).
Locals(resname, plural_forms, translations, out, exc) ==
    [resname |-> resname, plural_forms |-> plural_forms,
     translations |-> translations, out |-> out, exc |-> exc]

\* ET.parse, the <file> lookup and the target-language lookup
HeaderError(d) ==
    IF ~d.wellformed THEN Some("ParseError")
    ELSE IF ~d.file_elem THEN Some("ValueError")
    ELSE IF d.target_language = None THEN Some("ValueError")
    ELSE None

\* One iteration of the inner loop over a group's trans-units.
PluralMemberStep(L, u, warn, lang) ==
    LET r == IF L.resname = None THEN ResolveKey(u) ELSE L.resname
    IN  IF u.marker.group /\ u.marker.form
        THEN IF u.marker.text = None
             THEN [L EXCEPT !.resname = r, !.exc = Some("AttributeError")]
             ELSE LET form == FormOf(u.marker.text[1])
                      c == PluralChoice(u.target, u.source, warn)
                  IN  [L EXCEPT !.resname = r,
                                !.plural_forms = IF c.has THEN Put(@, form, c.text) ELSE @,
                                !.out = IF c.warns THEN Append(@, PluralWarning(form, r, lang))
                                        ELSE @]
        ELSE [L EXCEPT !.resname = r]

\* The group is emitted: if resname and plural_forms
GroupEmitted(resname, plural_forms) == Truthy(resname) /\ plural_forms # EmptyMap

\* The end of one iteration of the loop over groups; the next iteration
\* starts with fresh plural_forms and resname.
PluralGroupEnd(L) ==
    [L EXCEPT !.translations =
                  IF GroupEmitted(L.resname, L.plural_forms)
                  THEN Put(@, L.resname[1], [type |-> "plural", forms |-> L.plural_forms])
                  ELSE @,
              !.resname = None,
              !.plural_forms = EmptyMap]

\* (variant: the skip forgets the keys already in the map)
SingularSkipsNoneOnly(r, translations) == r = None

\* The singular pass skips the unit: resname is None or resname in translations
SingularSkips(r, translations) == r = None \/ r[1] \in DOMAIN translations

\* One iteration of the loop over every trans-unit.
SingularStep(L, u, warn, lang) ==
    LET r == ResolveKey(u)
        c == SingularChoice(u.target, u.source, warn)
    IN  IF SingularSkips(r, L.translations) THEN [L EXCEPT !.resname = r]
        ELSE [L EXCEPT !.resname = r,
                       !.translations = IF c.has
                                        THEN Put(@, r[1], [type |-> "string", value |-> c.text])
                                        ELSE @,
                       !.out = IF c.warns THEN Append(@, SingularWarning(r[1], lang)) ELSE @]

\* ------------------------------------ parse_xliff_file as a single function
RECURSIVE PluralMembers(_, _, _, _)
PluralMembers(L, ms, warn, lang) ==
    IF ms = <<>> \/ L.exc # None THEN L
    ELSE PluralMembers(PluralMemberStep(L, Head(ms), warn, lang), Tail(ms), warn, lang)

RECURSIVE PluralPass(_, _, _, _, _)
PluralPass(L, d, g, warn, lang) ==
    IF g > NumGroups(d) \/ L.exc # None THEN L
    ELSE LET M == PluralMembers(L, Members(d, g), warn, lang)
         IN  IF M.exc # None THEN M
             ELSE PluralPass(PluralGroupEnd(M), d, g + 1, warn, lang)

RECURSIVE SingularPass(_, _, _, _)
SingularPass(L, us, warn, lang) ==
    IF us = <<>> THEN L
    ELSE SingularPass(SingularStep(L, Head(us), warn, lang), Tail(us), warn, lang)

\* parse_xliff_file(file_path, warn_on_missing_target): exc is the exception
\* raised, or None with the returned translations and target_language.
ParseXliffFile(d, warn) ==
    LET L0 == Locals(None, EmptyMap, EmptyMap, <<>>, HeaderError(d))
    IN  IF L0.exc # None
        THEN [exc |-> L0.exc, translations |-> EmptyMap, target_language |-> None, out |-> <<>>]
        ELSE LET P == PluralPass(L0, d, 1, warn, d.target_language[1])
             IN  IF P.exc # None
                 THEN [exc |-> P.exc, translations |-> EmptyMap, target_language |-> None,
                       out |-> P.out]
                 ELSE LET S == SingularPass(P, AllUnits(d), warn, d.target_language[1])
                      IN  [exc |-> None, translations |-> S.translations,
                           target_language |-> d.target_language, out |-> S.out]

\* ------------------------------------------------------------------ state
VARIABLES
    \* one call of parse_xliff_file, statement by statement
    ppc, doc, warn_on_missing_target, target_language, gi, mi, ui,
    resname, plural_forms, translations, exc,
    \* what was printed
    out,
    \* the command-line run: main and parse_all_xliff_files
    pc, source_language, target_languages, files, li, parsed_locales,
    result, written, err, exit_code,
    \* one application of each text-selection branch to the same texts
    target, source, plural_choice, singular_choice

parseVars ==
    <<ppc, doc, warn_on_missing_target, target_language, gi, mi, ui,
      resname, plural_forms, translations, exc>>

runVars ==
    <<pc, source_language, target_languages, files, li, parsed_locales,
      result, written, err, exit_code>>

polVars == <<target, source, plural_choice, singular_choice>>

vars == <<parseVars, out, runVars, polVars>>

ParseIdle ==
    /\ ppc = "idle" /\ doc = DocMalformed /\ target_language = None
    /\ gi = 0 /\ mi = 0 /\ ui = 0
    /\ resname = None /\ plural_forms = EmptyMap /\ translations = EmptyMap /\ exc = None

RunIdle ==
    /\ pc = "idle" /\ source_language = [locale |-> "en"] /\ target_languages = <<>>
    /\ files = EmptyMap /\ li = 0 /\ parsed_locales = EmptyMap
    /\ result = None /\ written = FALSE /\ err = None /\ exit_code = None

PolIdle ==
    /\ target = None /\ source = None /\ plural_choice = None /\ singular_choice = None

\* ------------------------------------------- parse_xliff_file, step by step
InitParse ==
    /\ ppc = "start"
    /\ doc \in ParseDocs
    /\ warn_on_missing_target \in BOOLEAN
    /\ target_language = None
    /\ gi = 0 /\ mi = 0 /\ ui = 0
    /\ resname = None /\ plural_forms = EmptyMap /\ translations = EmptyMap /\ exc = None
    /\ out = <<>>
    /\ RunIdle /\ PolIdle

CurLocals == Locals(resname, plural_forms, translations, out, None)

\* the member the plural pass is at, the unit the singular pass is at
CurMember == Members(doc, gi)[mi]

CurUnit == AllUnits(doc)[ui]

SetLocals(L) ==
    /\ resname' = L.resname
    /\ plural_forms' = L.plural_forms
    /\ translations' = L.translations
    /\ out' = L.out

\* ET.parse up to the first loop
ParseStart ==
    /\ ppc = "start"
    /\ IF HeaderError(doc) # None
       THEN /\ ppc' = "raised"
            /\ exc' = HeaderError(doc)
            /\ UNCHANGED <<target_language, gi, mi, ui>>
       ELSE /\ ppc' = IF NumGroups(doc) >= 1 THEN "plural" ELSE "singular"
            /\ target_language' = doc.target_language
            /\ gi' = 1 /\ mi' = 1 /\ ui' = 1
            /\ exc' = None
    /\ UNCHANGED <<doc, warn_on_missing_target, resname, plural_forms, translations, out>>
    /\ UNCHANGED <<runVars, polVars>>

\* one trans-unit of the current plural group
PluralMember ==
    /\ ppc = "plural"
    /\ mi <= Len(Members(doc, gi))
    /\ LET L == PluralMemberStep(CurLocals, CurMember, warn_on_missing_target,
                                 target_language[1])
       IN  /\ SetLocals(L)
           /\ exc' = L.exc
           /\ ppc' = IF L.exc # None THEN "raised" ELSE "plural"
           /\ mi' = IF L.exc # None THEN mi ELSE mi + 1
    /\ UNCHANGED <<doc, warn_on_missing_target, target_language, gi, ui>>
    /\ UNCHANGED <<runVars, polVars>>

\* the group's members are exhausted: emit the group or drop it
PluralGroupDone ==
    /\ ppc = "plural"
    /\ mi > Len(Members(doc, gi))
    /\ SetLocals(PluralGroupEnd(CurLocals))
    /\ gi' = gi + 1
    /\ mi' = 1
    /\ ppc' = IF gi + 1 > NumGroups(doc) THEN "singular" ELSE "plural"
    /\ UNCHANGED <<doc, warn_on_missing_target, target_language, ui, exc>>
    /\ UNCHANGED <<runVars, polVars>>

\* one trans-unit of the pass over every trans-unit
SingularUnit ==
    /\ ppc = "singular"
    /\ ui <= Len(AllUnits(doc))
    /\ SetLocals(SingularStep(CurLocals, CurUnit, warn_on_missing_target, target_language[1]))
    /\ ui' = ui + 1
    /\ UNCHANGED <<ppc, doc, warn_on_missing_target, target_language, gi, mi, exc>>
    /\ UNCHANGED <<runVars, polVars>>

\* return {'translations': ..., 'target_language': ...}
ParseReturn ==
    /\ ppc = "singular"
    /\ ui > Len(AllUnits(doc))
    /\ ppc' = "returned"
    /\ UNCHANGED <<doc, warn_on_missing_target, target_language, gi, mi, ui,
                   resname, plural_forms, translations, exc, out>>
    /\ UNCHANGED <<runVars, polVars>>

NextParse == ParseStart \/ PluralMember \/ PluralGroupDone \/ SingularUnit \/ ParseReturn

SpecParse == InitParse /\ [][NextParse]_vars

\* The statement-by-statement run and the single function agree.
StepsAgreeWithFunction ==
    LET R == ParseXliffFile(doc, warn_on_missing_target)
    IN  /\ ppc = "returned" => R.exc = None /\ R.translations = translations /\ R.out = out
        /\ ppc = "raised" => R.exc = exc /\ R.out = out

\* ------------------------------------- the two text-selection branches alone
TextVals == {None, Some(""), Some("T"), Some("U")}

InitPolicy ==
    /\ target \in TextVals
    /\ source \in TextVals
    /\ warn_on_missing_target \in BOOLEAN
    /\ plural_choice = None /\ singular_choice = None
    /\ ParseIdle /\ RunIdle
    /\ out = <<>>

\* the if/elif of the plural path on (target, source)
ApplyPlural ==
    /\ plural_choice = None
    /\ plural_choice' = Some(PluralChoice(target, source, warn_on_missing_target))
    /\ UNCHANGED <<target, source, singular_choice, parseVars, out, runVars>>

\* the if/elif of the singular path on (target, source)
ApplySingular ==
    /\ singular_choice = None
    /\ singular_choice' = Some(SingularChoice(target, source, warn_on_missing_target))
    /\ UNCHANGED <<target, source, plural_choice, parseVars, out, runVars>>

NextPolicy == ApplyPlural \/ ApplySingular

SpecPolicy == InitPolicy /\ [][NextPolicy]_vars

\* ------------------------------------------------ the command-line run
TargetLocales == {"fr", "de", "es"}

DocRaises == GoodDoc(<<MkUnit(KeyA, TextTarget, FormNoText, 1)>>)

DocWarns ==
    GoodDoc(<<MkUnit(KeyA, TextFallback, MarkOne, 1), MkUnit(KeyB, TextFallback, NoCtx, 0)>>)

DocPlain == GoodDoc(<<MkUnit(KeyA, TextTarget, NoCtx, 0)>>)

RunDocs == {DocMalformed, DocNoFile, DocNoLang, DocRaises, DocWarns, DocPlain}

\* a language descriptor of the project configuration
Language(locale) == [locale |-> locale]

\* sequences of pairwise different target languages
TargetLists ==
    {ts \in UNION {[1..n -> {Language(l) : l \in TargetLocales}] : n \in 0..MaxTargets} :
        \A i, j \in 1..Len(ts) : i # j => ts[i] # ts[j]}

\* (variant: the source language is left out)
AllLanguagesTargetsOnly(src, tgts) == tgts

\* all_languages = [source_language] + target_languages
AllLanguages(src, tgts) == <<src>> \o tgts

all_languages == AllLanguages(source_language, target_languages)

\* an exception: its class, and for the aggregator's ValueError the locale
\* it names and the class of its cause
Exc(kind, locale, cause) == [kind |-> kind, locale |-> locale, cause |-> cause]

KeyboardInterrupt == Exc("KeyboardInterrupt", None, None)

\* the classes below Exception; KeyboardInterrupt is not one of them
IsException(kind) ==
    kind \in {"ParseError", "ValueError", "AttributeError", "FileNotFoundError", "OSError"}

\* except Exception as e: raise ValueError(f"Error processing locale ...")
AggregatorExceptCatchAll(e, lang_locale) == Exc("ValueError", Some(lang_locale), Some(e.kind))

AggregatorExcept(e, lang_locale) ==
    IF IsException(e.kind) THEN Exc("ValueError", Some(lang_locale), Some(e.kind)) ELSE e

\* the except clauses of main: where an exception leaving the try block goes
MainExcept(e) ==
    IF e.kind = "KeyboardInterrupt" THEN "except_interrupt"
    ELSE IF IsException(e.kind) THEN "except_error"
    ELSE "uncaught"

\* validate_translations: no rule yet, no warning
ValidateTranslations(trs, locale) == <<>>

\* the exit status of a run ended by a KeyboardInterrupt nothing catches
UncaughtInterruptStatus == {1, 130}

InitRun ==
    /\ pc = "args"
    /\ source_language = Language("en")
    /\ target_languages \in TargetLists
    /\ files \in [{"en"} \cup {target_languages[i].locale : i \in 1..Len(target_languages)}
                    -> {None} \cup {Some(d) : d \in RunDocs}]
    /\ li = 0
    /\ parsed_locales = EmptyMap
    /\ result = None /\ written = FALSE /\ err = None /\ exit_code = None
    /\ out = <<>>
    /\ warn_on_missing_target = TRUE
    /\ ParseIdle /\ PolIdle

lang_locale == all_languages[li].locale

Raise(e) ==
    /\ err' = Some(e)
    /\ pc' = MainExcept(e)

\* args = parser.parse_args()
ParseArgs ==
    /\ pc = "args"
    /\ pc' = "setup"
    /\ UNCHANGED <<source_language, target_languages, files, li, parsed_locales,
                   result, written, err, exit_code, out, parseVars, polVars>>

\* setup_generation, load_glossary_dict and the empty accumulators
Setup ==
    /\ pc = "setup"
    /\ pc' = "loop"
    /\ li' = 1
    /\ parsed_locales' = EmptyMap
    /\ UNCHANGED <<source_language, target_languages, files,
                   result, written, err, exit_code, out, parseVars, polVars>>

\* (variant: a missing document is skipped instead of raising)
LoopHeadSkipsMissing ==
    /\ pc = "loop"
    /\ li <= Len(all_languages)
    /\ IF files[lang_locale] = None
       THEN /\ li' = li + 1
            /\ UNCHANGED <<pc, out>>
       ELSE /\ pc' = "parse"
            /\ out' = Append(out, [kind |-> "parsing", locale |-> lang_locale])
            /\ li' = li
    /\ UNCHANGED <<source_language, target_languages, files, parsed_locales,
                   result, written, err, exit_code, parseVars, polVars>>

\* the head of one iteration: the existence check and the progress line
LoopHead ==
    /\ pc = "loop"
    /\ li <= Len(all_languages)
    /\ IF files[lang_locale] = None
       THEN /\ Raise(Exc("FileNotFoundError", Some(lang_locale), None))
            /\ out' = out
       ELSE /\ pc' = "parse"
            /\ out' = Append(out, [kind |-> "parsing", locale |-> lang_locale])
            /\ err' = err
    /\ UNCHANGED <<source_language, target_languages, files, li, parsed_locales,
                   result, written, exit_code, parseVars, polVars>>

\* (variant: a locale that fails is dropped and the loop goes on)
LoopBodyBestEffort ==
    /\ pc = "parse"
    /\ LET R == ParseXliffFile(files[lang_locale][1], TRUE)
       IN  /\ out' = out \o R.out
           /\ parsed_locales' =
                  IF R.exc # None THEN parsed_locales
                  ELSE Put(parsed_locales, lang_locale,
                           [target_language |-> R.target_language[1],
                            translations |-> R.translations,
                            language_info |-> all_languages[li]])
           /\ li' = li + 1
           /\ pc' = "loop"
    /\ UNCHANGED <<source_language, target_languages, files,
                   result, written, err, exit_code, parseVars, polVars>>

\* the try block of one iteration: parse, validate, store
LoopBody ==
    /\ pc = "parse"
    /\ LET R == ParseXliffFile(files[lang_locale][1], TRUE)
           warnings == ValidateTranslations(R.translations, lang_locale)
       IN  /\ out' = out \o R.out
           /\ IF R.exc # None
              THEN /\ Raise(AggregatorExcept(Exc(R.exc[1], None, None), lang_locale))
                   /\ UNCHANGED <<li, parsed_locales>>
              ELSE /\ parsed_locales' =
                          Put(parsed_locales, lang_locale,
                              [target_language |-> R.target_language[1],
                               translations |-> R.translations,
                               language_info |-> all_languages[li]])
                   /\ li' = li + 1
                   /\ pc' = "loop"
                   /\ err' = err
    /\ UNCHANGED <<source_language, target_languages, files,
                   result, written, exit_code, parseVars, polVars>>

\* after the loop: the summary line and the returned dictionary
Finish ==
    /\ pc = "loop"
    /\ li > Len(all_languages)
    /\ out' = Append(out, [kind |-> "parsed", count |-> Cardinality(DOMAIN parsed_locales)])
    /\ result' = Some([source_language |-> source_language,
                       target_languages |-> target_languages,
                       locales |-> parsed_locales])
    /\ pc' = "write"
    /\ UNCHANGED <<source_language, target_languages, files, li, parsed_locales,
                   written, err, exit_code, parseVars, polVars>>

\* os.makedirs, open and json.dump: they succeed or raise OSError
WriteOutput ==
    /\ pc = "write"
    /\ \E ok \in BOOLEAN :
          IF ok
          THEN /\ written' = TRUE
               /\ pc' = "saved"
               /\ err' = err
          ELSE /\ written' = written
               /\ Raise(Exc("OSError", None, None))
    /\ UNCHANGED <<source_language, target_languages, files, li, parsed_locales,
                   result, exit_code, out, parseVars, polVars>>

\* the closing line; main returns and the interpreter exits with status 0
ReportSaved ==
    /\ pc = "saved"
    /\ out' = Append(out, [kind |-> "saved"])
    /\ pc' = "exit"
    /\ exit_code' = Some(0)
    /\ UNCHANGED <<source_language, target_languages, files, li, parsed_locales,
                   result, written, err, parseVars, polVars>>

\* except KeyboardInterrupt: sys.exit(0)
ExceptInterrupt ==
    /\ pc = "except_interrupt"
    /\ out' = Append(out, [kind |-> "interrupted"])
    /\ pc' = "exit"
    /\ exit_code' = Some(0)
    /\ UNCHANGED <<source_language, target_languages, files, li, parsed_locales,
                   result, written, err, parseVars, polVars>>

\* except Exception as e: sys.exit(1)
ExceptError ==
    /\ pc = "except_error"
    /\ out' = Append(out, [kind |-> "error", error |-> err[1]])
    /\ pc' = "exit"
    /\ exit_code' = Some(1)
    /\ UNCHANGED <<source_language, target_languages, files, li, parsed_locales,
                   result, written, err, parseVars, polVars>>

\* the statements of main's try block
InTry == {"setup", "loop", "parse", "write", "saved"}

\* the user interrupts: KeyboardInterrupt is raised at the current statement
Interrupt ==
    /\ pc \in InTry \cup {"args", "except_interrupt", "except_error"}
    /\ IF pc \in InTry
       THEN /\ Raise(IF pc = "parse" THEN AggregatorExcept(KeyboardInterrupt, lang_locale)
                     ELSE KeyboardInterrupt)
            /\ exit_code' = exit_code
       ELSE /\ pc' = "exit"
            /\ err' = Some(KeyboardInterrupt)
            /\ exit_code' \in {Some(c) : c \in UncaughtInterruptStatus}
    /\ UNCHANGED <<source_language, target_languages, files, li, parsed_locales,
                   result, written, out, parseVars, polVars>>

NextRun ==
    \/ ParseArgs \/ Setup \/ LoopHead \/ LoopBody \/ Finish \/ WriteOutput
    \/ ReportSaved \/ ExceptInterrupt \/ ExceptError \/ Interrupt

SpecRun == InitRun /\ [][NextRun]_vars

\* =================================================================== claims
\* ------------------------------------------------- helpers of the formulas
Units == AllUnits(doc)

UnitIdx == 1..Len(Units)

\* the unit's target text is empty or absent and its source text is not
NeedsFallback(u) == ~Truthy(u.target) /\ Truthy(u.source)

Warnings == {i \in 1..Len(out) : out[i].kind = "warning"}

\* what the plural pass alone leaves in the map
PluralResult ==
    PluralPass(Locals(None, EmptyMap, EmptyMap, <<>>, None), doc, 1,
               warn_on_missing_target, target_language[1]).translations

PluralPassOver == ppc \in {"singular", "returned"}

\* C1: once the plural pass is over, every key it emitted stays in the map
\* with exactly the plural entry the plural pass stored: it is never a
\* 'string' entry and the singular pass never overwrites it, wherever a
\* standalone unit of the same key stands in the document.
C1_PluralKeysKept ==
    PluralPassOver =>
        \A k \in DOMAIN PluralResult :
            /\ k \in DOMAIN translations
            /\ translations[k].type = "plural"
            /\ translations[k] = PluralResult[k]

\* C1 witness: a finished parse of a document where a standalone unit with
\* translated text stands before the group that claims its key.
C1_Witness ==
    /\ ppc = "returned"
    /\ \E i, j \in UnitIdx :
          /\ i < j
          /\ Units[i].grp = 0 /\ Units[j].grp >= 1
          /\ Truthy(Units[i].target)
          /\ ResolveKey(Units[i]) # None
          /\ ResolveKey(Units[i])[1] \in DOMAIN PluralResult

AtMarkedMember ==
    /\ ppc = "plural" /\ mi <= Len(Members(doc, gi))
    /\ CurMember.marker.group /\ CurMember.marker.form /\ CurMember.marker.text # None

\* the singular pass is about to handle a unit it does not skip
AtExtractedUnit ==
    /\ ppc = "singular" /\ ui <= Len(Units)
    /\ ResolveKey(CurUnit) # None
    /\ ResolveKey(CurUnit)[1] \notin DOMAIN translations

C2_Step ==
    /\ (AtMarkedMember /\ NeedsFallback(CurMember)) =>
          LET form == FormOf(CurMember.marker.text[1])
              key == IF resname = None THEN ResolveKey(CurMember) ELSE resname
          IN  /\ form \in DOMAIN plural_forms'
              /\ plural_forms'[form] = CurMember.source[1]
              /\ out' = IF warn_on_missing_target
                        THEN Append(out, [kind |-> "warning", key |-> key,
                                          form |-> Some(form), lang |-> doc.target_language[1]])
                        ELSE out
    /\ (AtExtractedUnit /\ NeedsFallback(CurUnit)) =>
          LET key == ResolveKey(CurUnit)
          IN  /\ key[1] \in DOMAIN translations'
              /\ translations'[key[1]] = [type |-> "string", value |-> CurUnit.source[1]]
              /\ out' = IF warn_on_missing_target
                        THEN Append(out, [kind |-> "warning", key |-> key,
                                          form |-> None, lang |-> doc.target_language[1]])
                        ELSE out

PolicyChoice(t, s, w) ==
    IF Truthy(t) THEN [has |-> TRUE, text |-> t[1], fallback |-> FALSE, warns |-> FALSE]
    ELSE IF Truthy(s) THEN [has |-> TRUE, text |-> s[1], fallback |-> TRUE, warns |-> w]
    ELSE [has |-> FALSE, text |-> "", fallback |-> FALSE, warns |-> FALSE]

\* C3: on the same target and source text the plural path and the singular
\* path make the same choice, and it is the policy's: the target when it is
\* non-empty (no fallback, no warning), else the source when it is non-empty
\* (fallback, a warning when warnings are enabled), else no value.
C3_SamePolicy ==
    (plural_choice # None /\ singular_choice # None) =>
        /\ plural_choice = singular_choice
        /\ plural_choice[1] = PolicyChoice(target, source, warn_on_missing_target)

\* C3 witness: both paths applied to an empty target with a non-empty source,
\* warnings enabled: both fell back and warned.
C3_Witness ==
    /\ plural_choice # None /\ singular_choice # None
    /\ target = Some("") /\ Truthy(source) /\ warn_on_missing_target
    /\ plural_choice[1].fallback /\ singular_choice[1].warns

\* the forms one group resolves, and the key it ends up with
GroupLocals(g) ==
    PluralMembers(Locals(None, EmptyMap, EmptyMap, <<>>, None), Members(doc, g),
                  warn_on_missing_target, doc.target_language[1])

\* the plural pass is about to close a group
AtGroupEnd == ppc = "plural" /\ mi > Len(Members(doc, gi))

\* Checked on its own: closing a group stores a plural entry exactly when the
\* group has a non-empty key and at least one form, and then its forms.
GroupEndStep ==
    AtGroupEnd =>
        IF Truthy(resname) /\ plural_forms # EmptyMap
        THEN /\ resname[1] \in DOMAIN translations'
             /\ translations'[resname[1]] = [type |-> "plural", forms |-> plural_forms]
        ELSE translations' = translations

GroupEmittedIffKeyAndForms == [][GroupEndStep]_vars

\* Checked on its own: no plural entry of the map has an empty forms map.
PluralEntriesHaveForms ==
    \A k \in DOMAIN translations :
        translations[k].type = "plural" => translations[k].forms # EmptyMap

\* C8 (as claimed): every plural entry has forms, and a group that resolves
\* no form contributes no entry at all: a non-empty key that only members of
\* such a group carry is not in the returned map.
C8_DroppedGroupLeavesNoEntry ==
    ppc = "returned" =>
        /\ PluralEntriesHaveForms
        /\ \A i \in UnitIdx :
              LET u == Units[i]
              IN  (/\ u.grp >= 1
                   /\ GroupLocals(u.grp).plural_forms = EmptyMap
                   /\ Truthy(ResolveKey(u))
                   /\ \A j \in UnitIdx :
                         ResolveKey(Units[j]) = ResolveKey(u) => Units[j].grp = u.grp)
                  => ResolveKey(u)[1] \notin DOMAIN translations

\* C9 (as claimed): members of plural groups never yield 'string' entries, so
\* every 'string' entry of the returned map under a non-empty key has the key
\* of a standalone unit.
C9_StringEntriesFromStandaloneUnits ==
    ppc = "returned" =>
        \A k \in DOMAIN translations :
            (translations[k].type = "string" /\ k # "") =>
                \E i \in UnitIdx : Units[i].grp = 0 /\ ResolveKey(Units[i]) = Some(k)

\* the first standalone unit of key k in document order
FirstStandalone(k) ==
    CHOOSE i \in UnitIdx :
        /\ Units[i].grp = 0 /\ ResolveKey(Units[i]) = Some(k)
        /\ \A j \in UnitIdx :
              (Units[j].grp = 0 /\ ResolveKey(Units[j]) = Some(k)) => i <= j

\* C10 (as claimed): every key of the returned map is a non-empty string, and
\* in a document of standalone units the entry of a key is the one its first
\* unit in document order determines.
C10_KeysNonEmpty ==
    ppc = "returned" =>
        /\ \A k \in DOMAIN translations : k # ""
        /\ (\A i \in UnitIdx : Units[i].grp = 0) =>
              \A k \in DOMAIN translations :
                  LET c == PolicyChoice(Units[FirstStandalone(k)].target,
                                        Units[FirstStandalone(k)].source, TRUE)
                  IN  c.has /\ translations[k] = [type |-> "string", value |-> c.text]

\* ------------------------------------------ helpers of the run's formulas
\* the locales whose progress line was printed, in order
Started ==
    LET ps == SelectSeq(out, LAMBDA m : m.kind = "parsing")
    IN  [i \in 1..Len(ps) |-> ps[i].locale]

\* the configured order: the source language, then the target languages
LocaleOrder ==
    [i \in 1..(1 + Len(target_languages)) |->
        IF i = 1 THEN source_language.locale ELSE target_languages[i - 1].locale]

ConfiguredSet == {LocaleOrder[i] : i \in DOMAIN LocaleOrder}

Missing == {l \in ConfiguredSet : files[l] = None}

\* the locale's document exists and parse_xliff_file returns on it
Valid(l) == files[l] # None /\ ParseXliffFile(files[l][1], TRUE).exc = None

\* the exception is a user interrupt, bare or wrapped
Interrupted(e) ==
    e # None /\ (e[1].kind = "KeyboardInterrupt" \/ e[1].cause = Some("KeyboardInterrupt"))

IsPrefix(p, q) == Len(p) <= Len(q) /\ \A i \in 1..Len(p) : p[i] = q[i]

\* C4: a returned result has exactly one key per configured language, N in
\* all, each a configured locale; and a run over present and valid documents
\* that no interrupt ends does return a result.
C4_OneEntryPerLocale ==
    /\ result # None =>
          /\ DOMAIN result[1].locales = ConfiguredSet
          /\ Cardinality(DOMAIN result[1].locales) = 1 + Len(target_languages)
    /\ (pc = "exit" /\ ~Interrupted(err) /\ \A l \in ConfiguredSet : Valid(l)) =>
          result # None

\* C4 witness: a run over three present and valid documents that ended
\* with the output written and exit code 0.
C4_Witness ==
    /\ pc = "exit" /\ exit_code = Some(0) /\ err = None /\ written
    /\ Len(target_languages) >= 2
    /\ result # None /\ Cardinality(DOMAIN result[1].locales) >= 3

\* C5 (as claimed): a run that no interrupt ends and in which a required
\* document is missing ends with a missing-file error naming a missing
\* locale, without result and without output.
C5_MissingFileError ==
    (pc = "exit" /\ Missing # {} /\ ~Interrupted(err)) =>
        /\ err # None
        /\ err[1].kind = "FileNotFoundError"
        /\ err[1].locale # None /\ err[1].locale[1] \in Missing
        /\ result = None /\ ~written

FirstMissing == CHOOSE i \in DOMAIN LocaleOrder :
                    /\ LocaleOrder[i] \in Missing
                    /\ \A j \in DOMAIN LocaleOrder : LocaleOrder[j] \in Missing => i <= j

InvalidBefore(n) == {i \in 1..(n - 1) : ~Valid(LocaleOrder[i])}

\* C5 (amended): with a required document missing no result is ever
\* returned and the output is never written.  A run that no interrupt ends
\* fails at the first missing locale, with a missing-file error naming it,
\* exit code 1, the earlier locales parsed and no later one started, provided
\* every earlier locale's document parses; otherwise it has already failed
\* with the processing error of the first earlier locale that does not parse.
C5_MissingFileStopsRun ==
    Missing # {} =>
        /\ result = None /\ ~written
        /\ (pc = "exit" /\ ~Interrupted(err)) =>
              /\ err # None /\ exit_code = Some(1)
              /\ IF InvalidBefore(FirstMissing) = {}
                 THEN /\ err[1].kind = "FileNotFoundError"
                      /\ err[1].locale = Some(LocaleOrder[FirstMissing])
                      /\ Started = SubSeq(LocaleOrder, 1, FirstMissing - 1)
                 ELSE /\ err[1].kind = "ValueError"
                      /\ \E i \in InvalidBefore(FirstMissing) :
                            /\ err[1].locale = Some(LocaleOrder[i])
                            /\ \A j \in InvalidBefore(FirstMissing) : i <= j

\* C5 witness: a run ended by the missing-file error of a locale that is not
\* the first one.
C5_Witness ==
    /\ pc = "exit" /\ err # None /\ err[1].kind = "FileNotFoundError"
    /\ Started # <<>> /\ exit_code = Some(1)

\* C6: the locales started are a prefix of the configured order; a locale
\* starts only after every locale before it was parsed; a locale that fails
\* to parse raises an error carrying its identifier, is the last one
\* started, and leaves no result and no output.
C6_FailFastInOrder ==
    /\ IsPrefix(Started, LocaleOrder)
    /\ \A i \in 1..(Len(Started) - 1) : Valid(Started[i])
    /\ (err # None /\ err[1].kind = "ValueError") =>
          /\ Started # <<>>
          /\ err[1].locale = Some(Started[Len(Started)])
          /\ ~Valid(Started[Len(Started)])
          /\ result = None /\ ~written
    /\ (pc = "exit" /\ ~Interrupted(err) /\ Started # <<>> /\ ~Valid(Started[Len(Started)])) =>
          err # None /\ err[1].kind = "ValueError" /\ exit_code = Some(1)

\* C6 witness: a run in which the second of three locales failed to parse.
C6_Witness ==
    /\ pc = "exit" /\ err # None /\ err[1].kind = "ValueError"
    /\ Len(Started) = 2 /\ Len(LocaleOrder) = 3

\* C7 (as claimed): the run ends with exit code 0 on success, 1 on an error
\* and 0 on a user interrupt, wherever the interrupt arrives.
C7_ExitCodes ==
    pc = "exit" =>
        IF err = None THEN exit_code = Some(0)
        ELSE IF Interrupted(err) THEN exit_code = Some(0)
        ELSE exit_code = Some(1)

C7_Step ==
    /\ (pc \in InTry /\ err = None /\ Interrupted(err')) =>
          pc' = "except_interrupt" /\ err' = Some(KeyboardInterrupt)
    /\ (pc \in InTry /\ err = None /\ err' # None /\ ~Interrupted(err')) =>
          pc' = "except_error"
    /\ (pc = "except_interrupt" /\ out' # out) => pc' = "exit" /\ exit_code' = Some(0)
    /\ (pc = "except_error" /\ out' # out) => pc' = "exit" /\ exit_code' = Some(1)
    /\ (pc = "saved" /\ out' # out) =>
          pc' = "exit" /\ exit_code' = Some(0) /\ written /\ result # None /\ err' = None
    /\ (pc \notin InTry /\ pc' = "exit" /\ out' = out) =>
          Interrupted(err') /\ exit_code' # None /\ exit_code' # Some(0)
    /\ (exit_code' # exit_code) => pc' = "exit"

\* C7 (amended): the run ends with exit code 0 when aggregation and writing
\* succeed and with exit code 1 on an error in aggregation or in writing.  A
\* user interrupt that arrives while main's try block runs, also while a
\* locale is processed inside the aggregator's error-wrapping block, reaches
\* the interrupt handler unwrapped and ends the run with exit code 0.  An
\* interrupt that arrives outside the try block (while the arguments are
\* parsed, while a handler runs) is not caught and ends the run with a
\* non-zero status.
C7_ExitCodesInsideTry == [][C7_Step]_vars

\* C7 witness: a run interrupted while a locale was being parsed, ended by
\* the interrupt handler with exit code 0.
C7_Witness ==
    /\ pc = "exit" /\ exit_code = Some(0) /\ err = Some(KeyboardInterrupt)
    /\ out # <<>> /\ out[Len(out)].kind = "interrupted"
    /\ Started # <<>> /\ li <= Len(all_languages)
    /\ Started[Len(Started)] = lang_locale

====
